---- MODULE Spec2Model ----
(***************************************************************************)
(* Model of the document-issuance orchestration of the backend:            *)
(*   app/services/document_service.py  (DocumentService)                   *)
(*   app/services/hyphen_service.py    (HyphenService: the document        *)
(*                                      methods, _request, encrypt_data)   *)
(*   app/core/security.py              (encrypt/decrypt_sensitive_data)    *)
(*   app/services/certificate_service.py (validate_certificate,            *)
(*                                      extract_certificate_info)          *)
(*   app/api/documents.py              (upload, delete, manual status      *)
(*                                      update, the POST /auto-issue route)*)
(*   app/api/clients.py                (the certificate routes)            *)
(* One action per await-delimited step of each coroutine.                  *)
(***************************************************************************)
EXTENDS Integers, Sequences, FiniteSets, TLC

(***************************************************************************)
(* Bounds of the model.                                                    *)
(***************************************************************************)
\* number of top-level service calls (auto_issue_document / batch_auto_issue)
MaxCalls == 2
\* number of _get_access_token calls
MaxTokenCalls == 3
\* the clock advances MaxTicks times by TickSeconds
MaxTicks == 5
TickSeconds == 150
\* number of calls of the POST /auto-issue route
MaxRouteCalls == 2
\* number of calls of HyphenService document methods
MaxGatewayCalls == 2
\* length of the strings given to encrypt_sensitive_data, in code points
MaxLen == 2
\* the instants of certificate validity and of the clock are 0..MaxCertTime
MaxCertTime == 3
\* the client identifiers and transport keys are up to MaxIdLen characters
MaxIdLen == 17
\* number of upload_document and delete_document calls
MaxDocCalls == 2
\* number of calls of the certificate routes
MaxCertCalls == 2
\* number of encrypt_data calls on one HyphenService
MaxEncryptCalls == 2

\* the cases of the model and the court each was created for
Cases == {1, 2}
CaseCourt == [c \in Cases |-> IF c = 1 THEN "BUSAN" ELSE "DAEGU"]
\* the coroutine that calls auto_issue_document directly; it runs
\* concurrently with the calls batch_auto_issue makes
DirectProcs == {"direct"}
\* the call slot of the auto_issue_document calls made by batch_auto_issue
BatchProc == "batch"
Procs == DirectProcs \cup {BatchProc}

(***************************************************************************)
(* Optional[int]: None is the empty set, a value v is {v}.                 *)
(***************************************************************************)
None == {}

Some(v) == {v}

\* Python truthiness of an Optional[int]: None and 0 are falsy
Truthy(x) == x # {} /\ x # {0}

(***************************************************************************)
(* models/document.py                                                      *)
(***************************************************************************)
DocumentType ==
    { "FAMILY_RELATION_CERT", "MARRIAGE_CERT", "RESIDENT_REGISTER",
      "RESIDENT_ABSTRACT", "LEASE_CONTRACT", "FREE_RESIDENCE_CONFIRM",
      "DEBT_CERTIFICATE", "LOCAL_TAX_CERT", "LAND_REGISTRY",
      "REAL_ESTATE_REGISTER", "BUILDING_REGISTER", "LAND_REGISTER",
      "VEHICLE_REGISTER", "VEHICLE_PRICE", "INSURANCE_STATUS",
      "INSURANCE_REFUND", "HEALTH_INSURANCE_CERT", "PENSION_CERT",
      "INCOME_CERT", "HEALTH_INSURANCE_PAYMENT", "EMPLOYMENT_CERT",
      "SALARY_STATEMENT", "WITHHOLDING_TAX", "SEVERANCE_CERT",
      "BUSINESS_LICENSE", "VAT_CERT", "FINANCIAL_STATEMENT",
      "BANK_STATEMENT", "CREDIT_CARD_STATEMENT", "CREDIT_EDUCATION_CERT",
      "PREVIOUS_CASE_DOCS", "DIVORCE_DOCS", "OTHER" }

DocumentStatus ==
    { "NOT_STARTED", "IN_PROGRESS", "COMPLETED", "REQUIRED", "NOT_REQUIRED" }

(***************************************************************************)
(* schemas/document.py                                                     *)
(***************************************************************************)
\* the keys of AUTO_AVAILABLE_DOCUMENTS (every value is True)
AUTO_AVAILABLE_DOCUMENTS ==
    { "HEALTH_INSURANCE_CERT", "PENSION_CERT", "INSURANCE_STATUS",
      "REAL_ESTATE_REGISTER", "BUILDING_REGISTER", "LAND_REGISTER",
      "VEHICLE_REGISTER" }

\* a variant that takes every document type for auto-issuable
AutoAvailableAlways(document_type) == TRUE

\* AUTO_AVAILABLE_DOCUMENTS.get(document_type, False)
AutoAvailable(document_type) == document_type \in AUTO_AVAILABLE_DOCUMENTS

\* COURT_REQUIRED_DOCUMENTS of the two courts of the model
COURT_REQUIRED_DOCUMENTS ==
    [court \in {"BUSAN", "DAEGU"} |->
       IF court = "DAEGU"
       THEN { "FAMILY_RELATION_CERT", "RESIDENT_REGISTER", "HEALTH_INSURANCE_CERT",
              "PENSION_CERT", "INCOME_CERT", "LOCAL_TAX_CERT", "LAND_REGISTRY",
              "REAL_ESTATE_REGISTER", "VEHICLE_REGISTER", "INSURANCE_STATUS",
              "BANK_STATEMENT", "CREDIT_EDUCATION_CERT" }
       ELSE { "FAMILY_RELATION_CERT", "MARRIAGE_CERT", "RESIDENT_REGISTER",
              "RESIDENT_ABSTRACT", "HEALTH_INSURANCE_CERT", "PENSION_CERT",
              "INCOME_CERT", "HEALTH_INSURANCE_PAYMENT", "LOCAL_TAX_CERT",
              "LAND_REGISTRY", "REAL_ESTATE_REGISTER", "BUILDING_REGISTER",
              "LAND_REGISTER", "VEHICLE_REGISTER", "VEHICLE_PRICE",
              "INSURANCE_STATUS", "INSURANCE_REFUND", "BANK_STATEMENT",
              "CREDIT_CARD_STATEMENT", "CREDIT_EDUCATION_CERT" }]

\* the document types of the model: one that is auto-issuable and
\* dispatched, one that is auto-issuable (and required by one court only),
\* one that is not auto-issuable
ModelTypes == { "HEALTH_INSURANCE_CERT", "BUILDING_REGISTER", "RESIDENT_REGISTER" }

(***************************************************************************)
(* DocumentService._call_hyphen_api: the if/elif chain.  Each branch       *)
(* evaluates DocumentType.<name> before comparing; a name that is no       *)
(* member of the enum raises AttributeError at that point.                 *)
(***************************************************************************)
DispatchChain ==
    << [name |-> "HEALTH_INSURANCE_CERT",    method |-> "get_health_insurance_status"],
       [name |-> "HEALTH_INSURANCE_PAYMENT", method |-> "get_health_insurance_payment"],
       [name |-> "NATIONAL_PENSION",         method |-> "get_national_pension_status"],
       [name |-> "EMPLOYMENT_INSURANCE",     method |-> "get_employment_insurance"],
       [name |-> "REAL_ESTATE_REGISTER",     method |-> "get_real_estate_register"],
       [name |-> "BUSINESS_STATUS",          method |-> "get_business_status"],
       [name |-> "RESIDENT_REGISTER",        method |-> "get_resident_registration"],
       [name |-> "LOCAL_TAX_CERT",           method |-> "get_local_tax_certificate"],
       [name |-> "INCOME_CERT",              method |-> "get_income_certificate"],
       [name |-> "VEHICLE_REGISTER",         method |-> "get_vehicle_registration"] >>

RECURSIVE DispatchFrom(_, _)
DispatchFrom(document_type, i) ==
    IF i > Len(DispatchChain)
    THEN [kind |-> "raise", what |-> "ValueError"]
    ELSE IF DispatchChain[i].name \notin DocumentType
    THEN [kind |-> "raise", what |-> "AttributeError"]
    ELSE IF document_type = DispatchChain[i].name
    THEN [kind |-> "call", what |-> DispatchChain[i].method]
    ELSE DispatchFrom(document_type, i + 1)

Dispatch(document_type) == DispatchFrom(document_type, 1)


(***************************************************************************)
(* services/hyphen_service.py: the document methods HyphenService has.     *)
(***************************************************************************)
HyphenMethods ==
    { "get_resident_copy", "get_resident_abstract", "get_local_tax_certificate",
      "get_vehicle_registration", "get_health_insurance_status",
      "get_health_insurance_payment", "get_national_pension_status",
      "get_employment_insurance", "get_real_estate_register",
      "get_business_status", "get_income_certificate" }

\* the methods that call encrypt_data on the resident number
EncryptingMethods == HyphenMethods \ { "get_real_estate_register", "get_business_status" }

\* the branch of _call_hyphen_api taken for a document type: the method it
\* awaits, or the exception raised before any request is built
ApiCall(document_type) ==
    LET d == Dispatch(document_type)
    IN  IF d.kind = "call" /\ d.what \notin HyphenMethods
        THEN [kind |-> "raise", what |-> "AttributeError"]
        ELSE d

(***************************************************************************)
(* What the external API answers: response.json() of a 2xx response.       *)
(* code is result.get("code"), success is result.get("success").           *)
(***************************************************************************)
Responses == [code : {"0000", "E001"}, success : BOOLEAN]

NoResponse == [code |-> "-", success |-> FALSE]

\* document_service.py line 64
IsSuccess(result) == result.code = "0000" \/ result.success

\* exceptions HyphenService._request raises (all subclasses of Exception)
RequestExceptions == { "HTTPStatusError", "TimeoutException" }

\* the outcomes of awaiting one HyphenService document method
GatewayOutcomes(method) ==
    [kind : {"response"}, response : Responses, what : {"-"}]
    \cup [kind : {"raise"}, response : {NoResponse}, what : RequestExceptions]
    \cup (IF method \in EncryptingMethods
          THEN [kind : {"raise"}, response : {NoResponse}, what : {"ValueError"}]
          ELSE {})
    \cup [kind : {"cancel"}, response : {NoResponse}, what : {"CancelledError"}]

(***************************************************************************)
(* State.                                                                  *)
(***************************************************************************)
VARIABLES
    required,    \* the RequiredDocument rows, keyed by <<case_id, document_type>>
    documents,   \* the Document rows; has_file is whether the file of file_path
                 \* exists, api_success is whether the stored
                 \* api_response signals success
    files,       \* number of artifact files written under UPLOAD_DIR
    next_id,     \* the next autoincrement Document.id
    inv,         \* one auto_issue_document call per slot
    batch,       \* the batch_auto_issue call
    calls        \* number of top-level service calls so far

issueVars == <<required, documents, files, next_id, inv, batch, calls>>

VARIABLES
    access_token,      \* HyphenService._access_token
    token_expires_at,  \* HyphenService._token_expires_at
    now,               \* datetime.now(), in seconds
    tcall,             \* one _get_access_token call per caller
    token_requests,    \* number of POSTs sent to TOKEN_URL
    token_calls,       \* number of _get_access_token calls so far
    real_expiry        \* when the cached token really expires: fetch time + expires_in

tokenVars ==
    <<access_token, token_expires_at, now, tcall, token_requests, token_calls, real_expiry>>

VARIABLES
    route,             \* the call of the POST /auto-issue/{case_id}/{document_type} route
    gateway,           \* a HyphenService, its document-method call and the requests
                       \* that call has sent
    crypto,            \* a string, the blob encrypt_sensitive_data made of it, and
                       \* what decrypt_sensitive_data made of the blob
    cert               \* a call of CertificateService.validate_certificate

VARIABLES
    extract,           \* a call of CertificateService.extract_certificate_info
    transport,         \* a HyphenService and what its encrypt_data calls returned
    client,            \* the certificate columns of a Client row
    upload,            \* the call of the certificate routes of api/clients.py
    doc_calls          \* number of upload_document and delete_document calls so far

certVars == <<extract, transport, client, upload, doc_calls>>

vars == <<required, documents, files, next_id, inv, batch, calls,
          access_token, token_expires_at, now, tcall, token_requests, token_calls,
          real_expiry, route, gateway, crypto, cert, extract, transport, client, upload,
          doc_calls>>

\* what a step of DocumentService or of the manual update leaves alone
notIssueVars == <<tokenVars, route, gateway, crypto, cert, certVars>>

\* what a step of _get_access_token leaves alone
notTokenVars == <<issueVars, route, gateway, crypto, cert, certVars>>

\* the rows create_required_documents seeds for a case (api/cases.py)
RecKeys ==
    { k \in Cases \X ModelTypes : k[2] \in COURT_REQUIRED_DOCUMENTS[CaseCourt[k[1]]] }

\* the rows whose status the model updates through the PUT route
ManualKeys == { <<1, "HEALTH_INSURANCE_CERT">> }

NoResult == [success |-> FALSE, document_id |-> None, error |-> "-", code |-> "-"]

\* a call: where it is, its arguments and locals, what it returned, and what
\* happened in it: whether its row was NOT_STARTED when it was called, and whether
\* the await of _call_hyphen_api gave a success response (api)
IdleSlot ==
    [pc |-> "idle", case_id |-> 0, document_type |-> "-", response |-> NoResponse,
     document |-> None, error |-> "-", result |-> NoResult, was_not_started |-> FALSE,
     api |-> "-"]

IdleBatch ==
    [pc |-> "idle", case_id |-> 0, selected |-> {}, remaining |-> {},
     success |-> << >>, failed |-> << >>, gw_failed |-> {}]

Ended == {"returned", "raised", "cancelled"}

\* the route call: where it is, its path parameters, the method it awaits,
\* what the API answered, the Document it added and how many calls were made
IdleRoute ==
    [pc |-> "idle", case_id |-> 0, document_type |-> "-", method |-> "-",
     api_response |-> NoResponse, document |-> None, success |-> FALSE, calls |-> 0]

\* no blob: what the fields of crypto hold before encrypt_sensitive_data ran
NoBlob ==
    [version |-> 0, ts |-> 0, iv |-> 0, ct |-> << >>, hmac |-> << >>,
     b64 |-> "-", cut |-> FALSE]

NoCrypto ==
    [pc |-> "idle", s |-> << >>, blob |-> NoBlob, tampered |-> "-", out |-> << >>,
     err |-> "-"]

\* a PKCS#12 file: whether it parses, the password it is protected with,
\* whether it holds a private key and a certificate, and the validity of
\* the certificate
NoBundle ==
    [wellformed |-> FALSE, password |-> << >>, has_key |-> FALSE, has_cert |-> FALSE,
     not_valid_before |-> 0, not_valid_after |-> 0]

NoCert ==
    [pc |-> "idle", bundle |-> NoBundle, password |-> << >>, t |-> 0,
     result |-> FALSE, caught |-> "-"]

\* no exception: the type, the text of the ValueError that leaves
\* CertificateService, and the str(e) that text embeds
NoError == [type |-> "-", text |-> "-", detail |-> "-"]

NoExtract == [pc |-> "idle", bundle |-> NoBundle, password |-> << >>, error |-> NoError]

\* before HyphenService() is constructed: no identifier, no key, no
\* encrypt_data call made
NoTransport == [pc |-> "unconstructed", user_id |-> << >>, ekey |-> << >>, made |-> << >>]

\* the four certificate columns of a Client row without a certificate
NoCertificate ==
    [cert_der2pem_enc |-> None, cert_key2pem_enc |-> None, cert_subject |-> None,
     cert_valid_until |-> None]

\* a call of a certificate route: where it is, how many calls were made,
\* which route, whether validate_certificate was called and what it said,
\* the file given, the columns the session holds uncommitted, and the HTTP
\* status, the detail and the str(e) the detail embeds
NoUpload ==
    [pc |-> "idle", calls |-> 0, route |-> "-", checked |-> FALSE, valid |-> FALSE,
     bundle |-> NoBundle, pending |-> NoCertificate, status_code |-> 0, detail |-> "-",
     cause |-> "-"]

\* before HyphenService() is constructed: no configuration, no call
NoGateway ==
    [pc |-> "unconstructed", test_mode |-> FALSE, ekey |-> "", method |-> "-",
     use_legacy_auth |-> TRUE, data |-> {}, sent |-> {}, doc_posts |-> 0,
     token_posts |-> 0, outcome |-> "-", error |-> "-", calls |-> 0]

\* the coroutines that call _get_access_token on the one HyphenService
TokenProcs == {"t1", "t2"}


\* a call: where it is, what it returned, and what it did: sent a request,
\* found no token cached, ran while another call was awaiting its response
IdleTokenCall ==
    [pc |-> "idle", ret |-> None, sent |-> FALSE, nocache |-> FALSE, overlap |-> FALSE]

Init ==
    /\ required = [k \in RecKeys |->
                     [status |-> "NOT_STARTED", document_id |-> None, is_required |-> TRUE]]
    /\ documents = {}
    /\ files = 0
    /\ next_id = 1
    /\ inv = [p \in Procs |-> IdleSlot]
    /\ batch = IdleBatch
    /\ calls = 0
    /\ access_token = None
    /\ token_expires_at = None
    /\ now = 0
    /\ tcall = [p \in TokenProcs |-> IdleTokenCall]
    /\ token_requests = 0
    /\ token_calls = 0
    /\ real_expiry = None
    /\ route = IdleRoute
    /\ gateway = NoGateway
    /\ crypto = NoCrypto
    /\ cert = NoCert
    /\ extract = NoExtract
    /\ transport = NoTransport
    /\ client = NoCertificate
    /\ upload = NoUpload
    /\ doc_calls = 0

(***************************************************************************)
(* DocumentService._update_required_status                                 *)
(***************************************************************************)
\* a variant that writes the status and never the document_id
UpdateRequiredStatusOnlyStatus(req, case_id, document_type, status, document_id) ==
    LET k == <<case_id, document_type>>
    IN  IF k \in DOMAIN req
        THEN [req EXCEPT ![k].status = status]
        ELSE req

\* a variant whose query filters on case_id alone
UpdateRequiredStatusWholeCase(req, case_id, document_type, status, document_id) ==
    [k \in DOMAIN req |->
       IF k[1] = case_id
       THEN [status |-> status,
             document_id |-> IF Truthy(document_id) THEN document_id
                             ELSE req[k].document_id,
             is_required |-> req[k].is_required]
       ELSE req[k]]

UpdateRequiredStatus(req, case_id, document_type, status, document_id) ==
    LET k == <<case_id, document_type>>
    IN  IF k \in DOMAIN req
        THEN [req EXCEPT ![k] =
                [status |-> status,
                 document_id |-> IF Truthy(document_id) THEN document_id
                                 ELSE req[k].document_id,
                 is_required |-> req[k].is_required]]
        ELSE req

(***************************************************************************)
(* DocumentService.get_missing_documents filtered by batch_auto_issue      *)
(***************************************************************************)
GetMissingDocuments(req, case_id) ==
    { k[2] : k \in { x \in DOMAIN req :
                       /\ x[1] = case_id
                       /\ req[x].status # "COMPLETED"
                       /\ req[x].is_required } }

AutoAvailableMissing(req, case_id) ==
    { t \in GetMissingDocuments(req, case_id) : AutoAvailable(t) }

(***************************************************************************)
(* What batch_auto_issue does when its auto_issue_document call ends.      *)
(***************************************************************************)
BatchAfter(b, slot) ==
    CASE slot.pc = "returned" ->
           [b EXCEPT
              !.success = IF slot.result.success
                          THEN Append(@, [document_type |-> slot.document_type,
                                          document_id |-> slot.result.document_id])
                          ELSE @,
              !.failed = IF slot.result.success
                         THEN @
                         ELSE Append(@, [document_type |-> slot.document_type,
                                         error |-> slot.result.error]),
              !.pc = IF b.remaining = {} THEN "returned" ELSE "loop"]
      [] slot.pc = "raised" -> [b EXCEPT !.pc = "raised"]
      [] slot.pc = "cancelled" -> [b EXCEPT !.pc = "cancelled"]
      [] OTHER -> b

\* what is left of a call once it has ended: its arguments, how it ended,
\* what it returned and the Document it saved
AfterEnd(slot) ==
    IF slot.pc \in Ended
    THEN [slot EXCEPT !.response = NoResponse, !.was_not_started = FALSE, !.api = "-",
                      !.error = IF slot.pc = "returned" THEN "-" ELSE @]
    ELSE slot

\* the slot of p becomes slot; the batch call b sees the end of its own call
Step(p, slot, b) ==
    /\ inv' = [inv EXCEPT ![p] = AfterEnd(slot)]
    /\ batch' = IF p = BatchProc THEN BatchAfter(b, slot) ELSE b


(***************************************************************************)
(* DocumentService.auto_issue_document                                     *)
(***************************************************************************)
\* lines 48-55: the auto-available check and the IN_PROGRESS entry update,
\* which is awaited outside the try block
Enter(p, case_id, document_type, b) ==
    LET k == <<case_id, document_type>>
        slot == [IdleSlot EXCEPT !.case_id = case_id, !.document_type = document_type,
                                 !.was_not_started = /\ k \in DOMAIN required
                                                     /\ required[k].status = "NOT_STARTED"]
    IN  IF ~AutoAvailable(document_type)
        THEN /\ Step(p, [slot EXCEPT !.pc = "returned",
                                     !.result = [NoResult EXCEPT !.error = "not auto-available"]], b)
             /\ UNCHANGED required
        ELSE \E db_ok \in BOOLEAN :
               IF db_ok
               THEN /\ required' = UpdateRequiredStatus(required, case_id, document_type,
                                                        "IN_PROGRESS", None)
                    /\ Step(p, [slot EXCEPT !.pc = "call_api"], b)
               ELSE /\ UNCHANGED required
                    /\ Step(p, [slot EXCEPT !.pc = "raised", !.error = "SQLAlchemyError"], b)

\* a direct call of auto_issue_document
AutoIssueDocument(p, case_id, document_type) ==
    /\ inv[p].pc \in {"idle"} \cup Ended
    /\ calls < MaxCalls
    /\ calls' = calls + 1
    /\ Enter(p, case_id, document_type, batch)
    /\ UNCHANGED <<documents, files, next_id>>
    /\ UNCHANGED notIssueVars

\* lines 57-64: await _call_hyphen_api and test the response
CallHyphenApi(p) ==
    /\ inv[p].pc = "call_api"
    /\ LET slot == inv[p]
           call == ApiCall(slot.document_type)
           gw(ok) == IF p = BatchProc
                     THEN [batch EXCEPT !.gw_failed = IF ok THEN @
                                                          ELSE @ \cup {slot.document_type}]
                     ELSE batch
       IN  IF call.kind = "raise"
           THEN Step(p, [slot EXCEPT !.pc = "except_update", !.error = call.what,
                                     !.api = "failed"], gw(FALSE))
           ELSE \E o \in GatewayOutcomes(call.what) :
                  CASE o.kind = "response" /\ IsSuccess(o.response) ->
                         Step(p, [slot EXCEPT !.pc = "save", !.response = o.response,
                                              !.api = "ok"], gw(TRUE))
                    [] o.kind = "response" /\ ~IsSuccess(o.response) ->
                         Step(p, [slot EXCEPT !.pc = "failed_update", !.response = o.response,
                                              !.api = "failed"], gw(FALSE))
                    [] o.kind = "raise" ->
                         Step(p, [slot EXCEPT !.pc = "except_update", !.error = o.what,
                                              !.api = "failed"], gw(FALSE))
                    [] o.kind = "cancel" ->
                         Step(p, [slot EXCEPT !.pc = "cancelled", !.error = o.what,
                                              !.api = "failed"], gw(FALSE))
    /\ UNCHANGED <<required, documents, files, next_id, calls>>
    /\ UNCHANGED notIssueVars

\* lines 66-71 and _save_document: write the file, add the row, flush
SaveDocument(p) ==
    /\ inv[p].pc = "save"
    /\ LET slot == inv[p]
       IN  \E o \in {"ok", "OSError", "SQLAlchemyError"} :
             CASE o = "ok" ->
                    /\ documents' = documents \cup
                                      {[id |-> next_id, case_id |-> slot.case_id,
                                        document_type |-> slot.document_type,
                                        api_success |-> IsSuccess(slot.response),
                                        has_file |-> TRUE]}
                    /\ next_id' = next_id + 1
                    /\ files' = files + 1
                    /\ Step(p, [slot EXCEPT !.pc = "completed_update",
                                            !.response = NoResponse,
                                            !.document = Some(next_id)], batch)
               [] o = "OSError" ->
                    /\ UNCHANGED <<documents, next_id, files>>
                    /\ Step(p, [slot EXCEPT !.pc = "except_update", !.response = NoResponse,
                                            !.error = o], batch)
               [] o = "SQLAlchemyError" ->
                    /\ files' = files + 1
                    /\ UNCHANGED <<documents, next_id>>
                    /\ Step(p, [slot EXCEPT !.pc = "except_update", !.response = NoResponse,
                                            !.error = o], batch)
    /\ UNCHANGED <<required, calls>>
    /\ UNCHANGED notIssueVars

\* lines 73-81: the COMPLETED update and the success return
CompletedUpdate(p) ==
    /\ inv[p].pc = "completed_update"
    /\ LET slot == inv[p]
       IN  \E db_ok \in BOOLEAN :
             IF db_ok
             THEN /\ required' = UpdateRequiredStatus(required, slot.case_id,
                                     slot.document_type, "COMPLETED", slot.document)
                  /\ Step(p, [slot EXCEPT !.pc = "returned",
                                          !.result = [success |-> TRUE,
                                                      document_id |-> slot.document,
                                                      error |-> "-", code |-> "-"]], batch)
             ELSE /\ UNCHANGED required
                  /\ Step(p, [slot EXCEPT !.pc = "except_update",
                                          !.error = "SQLAlchemyError"], batch)
    /\ UNCHANGED <<documents, files, next_id, calls>>
    /\ UNCHANGED notIssueVars

\* lines 82-91: the response is no success: revert and return the failure
FailedUpdate(p) ==
    /\ inv[p].pc = "failed_update"
    /\ LET slot == inv[p]
       IN  \E db_ok \in BOOLEAN :
             IF db_ok
             THEN /\ required' = UpdateRequiredStatus(required, slot.case_id,
                                     slot.document_type, "NOT_STARTED", None)
                  /\ Step(p, [slot EXCEPT !.pc = "returned",
                                          !.result = [success |-> FALSE,
                                                      document_id |-> None,
                                                      error |-> "upstream message",
                                                      code |-> slot.response.code]], batch)
             ELSE /\ UNCHANGED required
                  /\ Step(p, [slot EXCEPT !.pc = "except_update",
                                          !.error = "SQLAlchemyError"], batch)
    /\ UNCHANGED <<documents, files, next_id, calls>>
    /\ UNCHANGED notIssueVars

\* lines 93-100: except Exception: revert and return str(e); an exception of
\* the revert itself leaves the function
ExceptUpdate(p) ==
    /\ inv[p].pc = "except_update"
    /\ LET slot == inv[p]
       IN  \E db_ok \in BOOLEAN :
             IF db_ok
             THEN /\ required' = UpdateRequiredStatus(required, slot.case_id,
                                     slot.document_type, "NOT_STARTED", None)
                  /\ Step(p, [slot EXCEPT !.pc = "returned",
                                          !.result = [success |-> FALSE,
                                                      document_id |-> None,
                                                      error |-> slot.error,
                                                      code |-> "-"]], batch)
             ELSE /\ UNCHANGED required
                  /\ Step(p, [slot EXCEPT !.pc = "raised",
                                          !.error = "SQLAlchemyError"], batch)
    /\ UNCHANGED <<documents, files, next_id, calls>>
    /\ UNCHANGED notIssueVars

(***************************************************************************)
(* DocumentService.batch_auto_issue                                        *)
(***************************************************************************)
\* lines 260-270: get_missing_documents and the auto_available filter
BatchAutoIssue(case_id) ==
    /\ batch.pc \in {"idle"} \cup Ended
    /\ calls < MaxCalls
    /\ calls' = calls + 1
    /\ \E db_ok \in BOOLEAN :
         IF db_ok
         THEN LET sel == AutoAvailableMissing(required, case_id)
              IN  batch' = [IdleBatch EXCEPT !.pc = IF sel = {} THEN "returned" ELSE "loop",
                                             !.case_id = case_id,
                                             !.selected = sel,
                                             !.remaining = sel]
         ELSE batch' = [IdleBatch EXCEPT !.pc = "raised", !.case_id = case_id]
    /\ inv' = [inv EXCEPT ![BatchProc] = IdleSlot]
    /\ UNCHANGED <<required, documents, files, next_id>>
    /\ UNCHANGED notIssueVars

\* lines 272-280: the next item of the loop, in the order the rows came
BatchNext ==
    /\ batch.pc = "loop"
    /\ inv[BatchProc].pc \in {"idle", "returned"}
    /\ \E t \in batch.remaining :
         Enter(BatchProc, batch.case_id, t,
               [batch EXCEPT !.remaining = @ \ {t}])
    /\ UNCHANGED <<documents, files, next_id, calls>>
    /\ UNCHANGED notIssueVars

(***************************************************************************)
(* api/documents.py update_required_document_status                        *)
(***************************************************************************)
\* (writing the status the row already has changes nothing)
UpdateRequiredDocumentStatus(k, new_status) ==
    /\ required[k].status # new_status
    /\ required' = [required EXCEPT ![k].status = new_status]
    /\ UNCHANGED <<documents, files, next_id, inv, batch, calls>>
    /\ UNCHANGED notIssueVars

(***************************************************************************)
(* api/documents.py: POST /auto-issue/{case_id}/{document_type}            *)
(***************************************************************************)
\* lines 305-351: the if/elif chain of the route
RouteDispatch(document_type) ==
    CASE document_type = "HEALTH_INSURANCE_CERT" ->
           [kind |-> "call", what |-> "get_health_insurance_status"]
      [] document_type = "PENSION_CERT" ->
           [kind |-> "call", what |-> "get_national_pension_status"]
      [] document_type = "RESIDENT_REGISTER" ->
           [kind |-> "call", what |-> "get_resident_copy"]
      [] document_type = "RESIDENT_ABSTRACT" ->
           [kind |-> "call", what |-> "get_resident_abstract"]
      [] document_type = "INCOME_CERT" ->
           [kind |-> "call", what |-> "get_income_certificate"]
      [] document_type = "LOCAL_TAX_CERT" ->
           [kind |-> "call", what |-> "get_local_tax_certificate"]
      [] OTHER -> [kind |-> "raise", what |-> "HTTPException"]

\* lines 274-351: look up the case and the client, decrypt the resident
\* number, and take the branch of the document type
RouteAutoIssueDocument(case_id, document_type) ==
    /\ route.pc \in {"idle"} \cup Ended
    /\ route.calls < MaxRouteCalls
    /\ LET call == [IdleRoute EXCEPT !.case_id = case_id,
                                     !.document_type = document_type,
                                     !.calls = route.calls + 1]
           d == RouteDispatch(document_type)
       IN  \E found \in BOOLEAN :
             route' = IF ~found \/ d.kind = "raise"
                      THEN [call EXCEPT !.pc = "raised"]
                      ELSE [call EXCEPT !.pc = "call_api", !.method = d.what]
    /\ UNCHANGED <<issueVars, tokenVars, gateway, crypto, cert, certVars>>

\* lines 306-346: await the HyphenService method; the response is not tested
RouteCallApi ==
    /\ route.pc = "call_api"
    /\ \E o \in GatewayOutcomes(route.method) :
         route' = CASE o.kind = "response" ->
                         [route EXCEPT !.pc = "save", !.api_response = o.response]
                    [] o.kind = "raise" -> [route EXCEPT !.pc = "returned"]
                    [] o.kind = "cancel" -> [route EXCEPT !.pc = "cancelled"]
    /\ UNCHANGED <<issueVars, tokenVars, gateway, crypto, cert, certVars>>

\* lines 353-378: write the file, add the Document, flush
RouteSave ==
    /\ route.pc = "save"
    /\ \E o \in {"ok", "OSError", "SQLAlchemyError"} :
         CASE o = "ok" ->
                /\ documents' = documents \cup
                                  {[id |-> next_id, case_id |-> route.case_id,
                                    document_type |-> route.document_type,
                                    api_success |-> IsSuccess(route.api_response),
                                    has_file |-> TRUE]}
                /\ next_id' = next_id + 1
                /\ files' = files + 1
                /\ route' = [route EXCEPT !.pc = "attach", !.document = Some(next_id)]
           [] o = "OSError" ->
                /\ UNCHANGED <<documents, next_id, files>>
                /\ route' = [route EXCEPT !.pc = "returned"]
           [] o = "SQLAlchemyError" ->
                /\ files' = files + 1
                /\ UNCHANGED <<documents, next_id>>
                /\ route' = [route EXCEPT !.pc = "returned"]
    /\ UNCHANGED <<required, inv, batch, calls>>
    /\ UNCHANGED <<tokenVars, gateway, crypto, cert, certVars>>

\* lines 380-409: set the row COMPLETED with the Document and commit; an
\* exception rolls the session back, the Document included
RouteAttach ==
    /\ route.pc = "attach"
    /\ LET k == <<route.case_id, route.document_type>>
       IN  \E db_ok \in BOOLEAN :
             IF db_ok
             THEN /\ required' = IF k \in DOMAIN required
                                 THEN [required EXCEPT ![k].status = "COMPLETED",
                                                       ![k].document_id = route.document]
                                 ELSE required
                  /\ UNCHANGED documents
                  /\ route' = [route EXCEPT !.pc = "returned", !.success = TRUE]
             ELSE /\ UNCHANGED required
                  /\ documents' = { d \in documents : Some(d.id) # route.document }
                  /\ route' = [route EXCEPT !.pc = "returned", !.document = None]
    /\ UNCHANGED <<files, next_id, inv, batch, calls>>
    /\ UNCHANGED <<tokenVars, gateway, crypto, cert, certVars>>

RouteNext ==
    \/ \E c \in Cases, t \in ModelTypes : RouteAutoIssueDocument(c, t)
    \/ RouteCallApi
    \/ RouteSave
    \/ RouteAttach

RouteSpec == Init /\ [][RouteNext]_vars

(***************************************************************************)
(* HyphenService._get_access_token                                         *)
(***************************************************************************)
\* the safety margin subtracted from expires_in, and the default expires_in
SafetyWindow == 300
DefaultExpiresIn == 604800

\* Python truthiness of an Optional[str]
TruthyStr(x) == x # {} /\ x # {""}

\* a variant that reuses a cached token whatever its expiry
CacheValidIgnoringExpiry(tok, exp, t) == TruthyStr(tok) /\ exp # None

\* lines 109-110: a token is cached and datetime.now() is before its expiry
CacheValid(tok, exp, t) == TruthyStr(tok) /\ exp # None /\ \A e \in exp : t < e

\* what the token endpoint answers with a 2xx status
TokenValues == {"tokA", "tokB"}
TokenResponses == [access_token : TokenValues, expires_in : {None, {200}, {600}}]

\* data.get("expires_in", 604800)
ExpiresIn(data) ==
    IF data.expires_in = None THEN DefaultExpiresIn ELSE CHOOSE e \in data.expires_in : TRUE

\* line 128
ExpiresAt(t, data) == t + ExpiresIn(data) - SafetyWindow

\* lines 108-121: return the cached token, or send the POST and await it
GetAccessToken(p) ==
    /\ tcall[p].pc \in {"idle", "returned", "raised"}
    /\ token_calls < MaxTokenCalls
    /\ token_calls' = token_calls + 1
    /\ IF CacheValid(access_token, token_expires_at, now)
       THEN /\ tcall' = [tcall EXCEPT ![p] = [IdleTokenCall EXCEPT !.pc = "returned",
                                                                   !.ret = access_token]]
            /\ UNCHANGED token_requests
       ELSE /\ token_requests' = token_requests + 1
            /\ LET others == {q \in TokenProcs \ {p} : tcall[q].pc = "posting"}
               IN  tcall' = [q \in TokenProcs |->
                               IF q = p
                               THEN [IdleTokenCall EXCEPT !.pc = "posting",
                                                          !.sent = TRUE,
                                                          !.nocache = ~TruthyStr(access_token),
                                                          !.overlap = others # {}]
                               ELSE IF q \in others
                               THEN [tcall[q] EXCEPT !.overlap = TRUE]
                               ELSE tcall[q]]
    /\ UNCHANGED <<access_token, token_expires_at, now, real_expiry>>
    /\ UNCHANGED notTokenVars

\* lines 122-130: the response arrives
TokenResponse(p) ==
    /\ tcall[p].pc = "posting"
    /\ \/ \E data \in TokenResponses :
            /\ access_token' = Some(data.access_token)
            /\ token_expires_at' = Some(ExpiresAt(now, data))
            /\ real_expiry' = Some(now + ExpiresIn(data))
            /\ tcall' = [tcall EXCEPT ![p].pc = "returned",
                                      ![p].ret = Some(data.access_token)]
       \/ /\ tcall' = [tcall EXCEPT ![p].pc = "raised"]
          /\ UNCHANGED <<access_token, token_expires_at, real_expiry>>
    /\ UNCHANGED <<now, token_requests, token_calls>>
    /\ UNCHANGED notTokenVars

\* time passes
Tick ==
    /\ now < MaxTicks * TickSeconds
    /\ now' = now + TickSeconds
    /\ UNCHANGED <<access_token, token_expires_at, tcall, token_requests, token_calls,
                   real_expiry>>
    /\ UNCHANGED notTokenVars

TokenNext ==
    \/ \E p \in TokenProcs : GetAccessToken(p)
    \/ \E p \in TokenProcs : TokenResponse(p)
    \/ Tick

TokenSpec == Init /\ [][TokenNext]_vars

(***************************************************************************)
(* HyphenService: the document methods and _request                        *)
(***************************************************************************)
\* a value of the JSON body: a string as given, or the output of
\* encrypt_data, which is AES128-CBC under ekey and then Base64
Plain(v) == [form |-> "plain", key |-> "-", v |-> v]

\* a variant that puts the data into the body as given
EncryptDataAsGiven(ekey, data) == Plain(data)

\* encrypt_data, lines 86-99
EncryptData(ekey, data) == [form |-> "aes128-cbc-base64", key |-> ekey, v |-> data]

\* the arguments of the calls of the model
ResidentNumber == "9001011234567"
MethodArgs == [phone_number : BOOLEAN, telecom : BOOLEAN]

\* name, jumin and certType, as nine of the methods build them
IdentityFields(ekey) ==
    { <<"name", Plain("name")>>,
      <<"jumin", EncryptData(ekey, ResidentNumber)>>,
      <<"certType", Plain("cert_type")>> }

\* phoneNo and telecom are added when the argument is truthy
ContactFields(args) ==
    (IF args.phone_number THEN { <<"phoneNo", Plain("phone_number")>> } ELSE {})
    \cup (IF args.telecom THEN { <<"telecom", Plain("telecom")>> } ELSE {})

\* the data dict each document method builds, as a set of <<field, value>>
MethodData(method, args, ekey) ==
    CASE method \in {"get_resident_copy", "get_resident_abstract"} ->
           IdentityFields(ekey) \cup ContactFields(args)
      [] method = "get_vehicle_registration" ->
           IdentityFields(ekey) \cup { <<"carNo", Plain("vehicle_number")>> }
      [] method = "get_health_insurance_payment" ->
           IdentityFields(ekey) \cup { <<"startDate", Plain("start_date")>>,
                                       <<"endDate", Plain("end_date")>> }
      [] method = "get_income_certificate" ->
           IdentityFields(ekey) \cup { <<"year", Plain("year")>> }
      [] method = "get_real_estate_register" ->
           { <<"address", Plain("address")>>, <<"registerType", Plain("2")>> }
      [] method = "get_business_status" ->
           { <<"businessNo", Plain("business_number")>> }
      [] OTHER -> IdentityFields(ekey)

\* _request lines 152-164: the headers of the request to the document endpoint
RequestHeaders(test_mode, use_legacy_auth) ==
    {"Content-Type", "user-id", "Hkey"}
    \cup (IF test_mode THEN {"hyphen-gustation"} ELSE {})
    \cup (IF use_legacy_auth THEN {} ELSE {"Authorization"})

\* _get_access_token lines 114-121: the request to TOKEN_URL
TokenRequest ==
    [to |-> "token", headers |-> {"Content-Type"},
     data |-> { <<"user_id", Plain("user_id")>>, <<"hkey", Plain("hkey")>> }]

\* _request lines 166-167: client.post(url, headers=headers, json=data)
SendDocumentRequest(g) ==
    [g EXCEPT !.pc = "posting",
              !.doc_posts = @ + 1,
              !.sent = @ \cup { [to |-> "document",
                                 headers |-> RequestHeaders(g.test_mode, g.use_legacy_auth),
                                 data |-> g.data] }]

\* a variant that sends the request once more after a failure
RequestFailedRetrying(g, what) ==
    IF g.doc_posts < 2
    THEN SendDocumentRequest([g EXCEPT !.outcome = what])
    ELSE [g EXCEPT !.pc = "raised", !.outcome = what, !.error = what]

\* _request lines 167 and 174: the exception of client.post or of
\* raise_for_status leaves _request and the document method
RequestFailed(g, what) == [g EXCEPT !.pc = "raised", !.outcome = what, !.error = what]

\* HyphenService.__init__: test_mode and the configured HYPHEN_EKEY
HyphenServiceInit(test_mode, ekey) ==
    /\ gateway.pc = "unconstructed"
    /\ gateway' = [NoGateway EXCEPT !.pc = "idle", !.test_mode = test_mode, !.ekey = ekey]
    /\ UNCHANGED <<issueVars, tokenVars, route, crypto, cert, certVars>>

\* a document method up to its first await: build data (encrypt_data raises
\* ValueError without ekey), then _request builds the headers and either
\* posts, or first asks for a token when the cached one is not valid
GatewayCall(method, args, use_legacy_auth) ==
    /\ gateway.pc \in {"idle", "returned", "raised"}
    /\ gateway.calls < MaxGatewayCalls
    /\ LET g == [gateway EXCEPT !.method = method, !.use_legacy_auth = use_legacy_auth,
                                !.data = {}, !.sent = {}, !.doc_posts = 0,
                                !.token_posts = 0, !.outcome = "-", !.error = "-",
                                !.calls = @ + 1]
       IN  IF method \in EncryptingMethods /\ gateway.ekey = ""
           THEN /\ gateway' = [g EXCEPT !.pc = "raised", !.error = "ValueError"]
                /\ UNCHANGED token_requests
           ELSE LET h == [g EXCEPT !.data = MethodData(method, args, gateway.ekey)]
                IN  IF use_legacy_auth \/ CacheValid(access_token, token_expires_at, now)
                    THEN /\ gateway' = SendDocumentRequest(h)
                         /\ UNCHANGED token_requests
                    ELSE /\ gateway' = [h EXCEPT !.pc = "token_wait",
                                                 !.token_posts = @ + 1,
                                                 !.sent = @ \cup {TokenRequest}]
                         /\ token_requests' = token_requests + 1
    /\ UNCHANGED <<access_token, token_expires_at, now, tcall, token_calls, real_expiry>>
    /\ UNCHANGED <<issueVars, route, crypto, cert, certVars>>

\* _get_access_token lines 122-130 inside _request: the token arrives and
\* the document request is posted, or the token request fails
GatewayTokenResponse ==
    /\ gateway.pc = "token_wait"
    /\ \/ \E data \in TokenResponses :
            /\ access_token' = Some(data.access_token)
            /\ token_expires_at' = Some(ExpiresAt(now, data))
            /\ real_expiry' = Some(now + ExpiresIn(data))
            /\ gateway' = SendDocumentRequest(gateway)
       \/ \E what \in RequestExceptions :
            /\ gateway' = [gateway EXCEPT !.pc = "raised", !.error = what]
            /\ UNCHANGED <<access_token, token_expires_at, real_expiry>>
    /\ UNCHANGED <<now, tcall, token_requests, token_calls>>
    /\ UNCHANGED <<issueVars, route, crypto, cert, certVars>>

\* _request lines 167-175: the answer of the document endpoint
GatewayResponse ==
    /\ gateway.pc = "posting"
    /\ \/ gateway' = [gateway EXCEPT !.pc = "returned", !.outcome = "2xx"]
       \/ \E what \in RequestExceptions : gateway' = RequestFailed(gateway, what)
    /\ UNCHANGED <<issueVars, tokenVars, route, crypto, cert, certVars>>

GatewayNext ==
    \/ \E tm \in BOOLEAN, ek \in {"", "ekey"} : HyphenServiceInit(tm, ek)
    \/ \E m \in HyphenMethods, a \in MethodArgs, legacy \in BOOLEAN : GatewayCall(m, a, legacy)
    \/ GatewayTokenResponse
    \/ GatewayResponse

GatewaySpec == Init /\ [][GatewayNext]_vars

(***************************************************************************)
(* core/security.py: encrypt_sensitive_data and decrypt_sensitive_data.    *)
(* A str is a sequence of code points, bytes a sequence of 0..255.         *)
(***************************************************************************)
\* the code points of the strings of the model: "A", "e" with acute accent,
\* a Hangul syllable, and a lone surrogate, which a Python str can hold
CodePoints == {65, 233, 44032, 55296}

RECURSIVE StringsOfLen(_)
StringsOfLen(n) ==
    IF n = 0 THEN { << >> }
    ELSE { Append(t, c) : t \in StringsOfLen(n - 1), c \in CodePoints }

Strings == UNION { StringsOfLen(n) : n \in 0..MaxLen }

IsSurrogate(cp) == cp >= 55296 /\ cp <= 57343

\* a variant that keeps the low byte of a code point
Utf8BytesLowByte(cp) == << cp % 256 >>

\* the UTF-8 bytes of one code point
Utf8Bytes(cp) ==
    IF cp < 128 THEN << cp >>
    ELSE IF cp < 2048 THEN << 192 + (cp \div 64), 128 + (cp % 64) >>
    ELSE IF cp < 65536
    THEN << 224 + (cp \div 4096), 128 + ((cp \div 64) % 64), 128 + (cp % 64) >>
    ELSE << 240 + (cp \div 262144), 128 + ((cp \div 4096) % 64),
            128 + ((cp \div 64) % 64), 128 + (cp % 64) >>

RECURSIVE Utf8EncodeFrom(_, _)
Utf8EncodeFrom(str, i) ==
    IF i > Len(str) THEN << >> ELSE Utf8Bytes(str[i]) \o Utf8EncodeFrom(str, i + 1)

\* str.encode(): UnicodeEncodeError for a string that holds a surrogate
Utf8Encode(str) ==
    IF \E i \in 1..Len(str) : IsSurrogate(str[i])
    THEN [ok |-> FALSE, bytes |-> << >>]
    ELSE [ok |-> TRUE, bytes |-> Utf8EncodeFrom(str, 1)]

IsCont(b, i) == i <= Len(b) /\ b[i] >= 128 /\ b[i] < 192

\* bytes.decode(): the code points of b from index i on, or UnicodeDecodeError
RECURSIVE Utf8DecodeFrom(_, _)
Utf8DecodeFrom(b, i) ==
    IF i > Len(b) THEN [ok |-> TRUE, str |-> << >>]
    ELSE LET lead == b[i]
             n == IF lead < 128 THEN 1
                  ELSE IF lead >= 194 /\ lead < 224 THEN 2
                  ELSE IF lead >= 224 /\ lead < 240 THEN 3
                  ELSE IF lead >= 240 /\ lead < 245 THEN 4
                  ELSE 0
             wellformed == n > 0 /\ \A j \in 1..(n - 1) : IsCont(b, i + j)
             cp == CASE n = 1 -> lead
                     [] n = 2 -> (lead - 192) * 64 + (b[i + 1] - 128)
                     [] n = 3 -> (lead - 224) * 4096 + (b[i + 1] - 128) * 64
                                 + (b[i + 2] - 128)
                     [] OTHER -> (lead - 240) * 262144 + (b[i + 1] - 128) * 4096
                                 + (b[i + 2] - 128) * 64 + (b[i + 3] - 128)
         IN  IF ~wellformed THEN [ok |-> FALSE, str |-> << >>]
             ELSE IF \/ IsSurrogate(cp)
                     \/ (n = 3 /\ cp < 2048)
                     \/ (n = 4 /\ (cp < 65536 \/ cp > 1114111))
             THEN [ok |-> FALSE, str |-> << >>]
             ELSE LET rest == Utf8DecodeFrom(b, i + n)
                  IN  IF rest.ok THEN [ok |-> TRUE, str |-> << cp >> \o rest.str]
                      ELSE rest

Utf8Decode(b) == Utf8DecodeFrom(b, 1)

\* settings.ENCRYPTION_KEY of the process, and of another deployment
MasterSecret == "secret"
OtherSecret == "other secret"

\* get_encryption_key: urlsafe_b64encode(sha256(ENCRYPTION_KEY))
GetEncryptionKey(secret) == << "sha256", secret >>

\* the HMAC of a Fernet token: over version, timestamp, IV and ciphertext
Mac(key, version, ts, iv, ct) == << "hmac", key, version, ts, iv, ct >>

\* Fernet(key).encrypt(data): version 0x80, timestamp, IV, the AES-CBC
\* ciphertext of the padded data, the HMAC; Base64 in canonical form
FernetEncrypt(key, data, ts, iv) ==
    LET ct == << "aes-cbc", key, iv, data >>
    IN  [version |-> 128, ts |-> ts, iv |-> iv, ct |-> ct,
         hmac |-> Mac(key, 128, ts, iv, ct), b64 |-> "canonical", cut |-> FALSE]

\* Fernet(key).decrypt(token): Base64-decode, check the version and the
\* length, verify the HMAC, decrypt; InvalidToken otherwise
FernetDecrypt(key, blob) ==
    IF blob.b64 \notin {"canonical", "trailing bits"} \/ blob.cut \/ blob.version # 128
    THEN [ok |-> FALSE, bytes |-> << >>]
    ELSE IF blob.hmac # Mac(key, blob.version, blob.ts, blob.iv, blob.ct)
    THEN [ok |-> FALSE, bytes |-> << >>]
    ELSE IF blob.ct[1] # "aes-cbc" \/ blob.ct[2] # key \/ blob.ct[3] # blob.iv
    THEN [ok |-> FALSE, bytes |-> << >>]
    ELSE [ok |-> TRUE, bytes |-> blob.ct[4]]

\* the length in bytes of the token of a plaintext of n bytes: version,
\* timestamp, IV, the PKCS7-padded ciphertext and the HMAC
TokenLength(n) == 1 + 8 + 16 + 16 * ((n \div 16) + 1) + 32

\* the Base64 text of a token of that length ends in a character whose low
\* bits encode nothing; the decoder ignores them
HasTrailingBits(n) == TokenLength(n) % 3 # 0

\* what can happen to a blob between encryption and decryption
Alterations ==
    { "version", "timestamp", "iv", "ciphertext", "hmac", "truncated",
      "not base64", "trailing bits", "other secret" }

\* the blob after an alteration of the given kind
Altered(blob, kind) ==
    CASE kind = "version" -> [blob EXCEPT !.version = 129]
      [] kind = "timestamp" -> [blob EXCEPT !.ts = @ + 1]
      [] kind = "iv" -> [blob EXCEPT !.iv = @ + 1]
      [] kind = "ciphertext" -> [blob EXCEPT !.ct = << "aes-cbc", @[2], @[3], @[4] \o << 0 >> >>]
      [] kind = "hmac" -> [blob EXCEPT !.hmac = << "hmac", "forged" >>]
      [] kind = "truncated" -> [blob EXCEPT !.cut = TRUE]
      [] kind = "not base64" -> [blob EXCEPT !.b64 = "invalid"]
      [] kind = "trailing bits" -> [blob EXCEPT !.b64 = "trailing bits"]
      [] kind = "other secret" ->
           FernetEncrypt(GetEncryptionKey(OtherSecret), blob.ct[4], blob.ts, blob.iv)

\* encrypt_sensitive_data(data): fernet.encrypt(data.encode()).decode()
EncryptSensitiveData(data, iv) ==
    /\ crypto.pc = "idle"
    /\ LET e == Utf8Encode(data)
       IN  crypto' =
             IF e.ok
             THEN [NoCrypto EXCEPT !.pc = "encrypted", !.s = data,
                     !.blob = FernetEncrypt(GetEncryptionKey(MasterSecret), e.bytes, now, iv)]
             ELSE [NoCrypto EXCEPT !.pc = "encrypt_raised", !.s = data,
                                   !.err = "UnicodeEncodeError"]
    /\ UNCHANGED <<issueVars, tokenVars, route, gateway, cert, certVars>>

\* the stored blob is altered, or replaced by one made under another secret
AlterBlob(kind) ==
    /\ crypto.pc = "encrypted"
    /\ crypto.tampered = "-"
    /\ kind = "trailing bits" => HasTrailingBits(Len(crypto.blob.ct[4]))
    /\ crypto' = [crypto EXCEPT !.blob = Altered(@, kind), !.tampered = kind]
    /\ UNCHANGED <<issueVars, tokenVars, route, gateway, cert, certVars>>

\* decrypt_sensitive_data(encrypted_data):
\* fernet.decrypt(encrypted_data.encode()).decode()
DecryptSensitiveData ==
    /\ crypto.pc = "encrypted"
    /\ LET d == FernetDecrypt(GetEncryptionKey(MasterSecret), crypto.blob)
           u == Utf8Decode(d.bytes)
       IN  crypto' =
             IF ~d.ok THEN [crypto EXCEPT !.pc = "decrypt_raised", !.err = "InvalidToken"]
             ELSE IF ~u.ok
             THEN [crypto EXCEPT !.pc = "decrypt_raised", !.err = "UnicodeDecodeError"]
             ELSE [crypto EXCEPT !.pc = "decrypted", !.out = u.str]
    /\ UNCHANGED <<issueVars, tokenVars, route, gateway, cert, certVars>>

CryptoNext ==
    \/ \E data \in Strings, iv \in {1, 2} : EncryptSensitiveData(data, iv)
    \/ \E kind \in Alterations : AlterBlob(kind)
    \/ DecryptSensitiveData

CryptoSpec == Init /\ [][CryptoNext]_vars

(***************************************************************************)
(* services/certificate_service.py: CertificateService.validate_certificate*)
(***************************************************************************)
\* the password the files of the model are protected with, and the
\* passwords given: the right one, a wrong one, one that cannot be encoded
BundlePassword == << 65 >>
Passwords == { << 65 >>, << 66 >>, << 55296 >> }

Bundles ==
    { b \in [wellformed : BOOLEAN, password : {BundlePassword}, has_key : BOOLEAN,
             has_cert : BOOLEAN, not_valid_before : 0..MaxCertTime,
             not_valid_after : 0..MaxCertTime] :
        b.not_valid_before <= b.not_valid_after }

\* pkcs12.load_key_and_certificates: ValueError for bytes that are no
\* PKCS#12 and for a wrong password, else the key and the certificate,
\* each of which may be None
LoadKeyAndCertificates(bundle, password_bytes) ==
    IF ~bundle.wellformed
    THEN [kind |-> "raise", what |-> "ValueError", key |-> FALSE, cert |-> FALSE,
          msg |-> "Could not deserialize PKCS12 data"]
    ELSE IF password_bytes # Utf8Encode(bundle.password).bytes
    THEN [kind |-> "raise", what |-> "ValueError", key |-> FALSE, cert |-> FALSE,
          msg |-> "Invalid password or PKCS12 data"]
    ELSE [kind |-> "return", what |-> "-", key |-> bundle.has_key, cert |-> bundle.has_cert,
          msg |-> "-"]

\* a variant that looks at the start of the validity only
WithinValidityIgnoringExpiry(t, not_valid_before, not_valid_after) ==
    ~(t < not_valid_before)

\* line 151, negated: now is neither before not_valid_before nor after
\* not_valid_after
WithinValidity(t, not_valid_before, not_valid_after) ==
    ~(t < not_valid_before \/ t > not_valid_after)

\* lines 138-154: the body of the try block
ValidateBody(bundle, password, t) ==
    LET pw == Utf8Encode(password)
        loaded == LoadKeyAndCertificates(bundle, pw.bytes)
    IN  IF ~pw.ok THEN [kind |-> "raise", what |-> "UnicodeEncodeError", value |-> FALSE]
        ELSE IF loaded.kind = "raise"
        THEN [kind |-> "raise", what |-> loaded.what, value |-> FALSE]
        ELSE IF ~loaded.cert \/ ~loaded.key
        THEN [kind |-> "return", what |-> "-", value |-> FALSE]
        ELSE [kind |-> "return", what |-> "-",
              value |-> WithinValidity(t, bundle.not_valid_before, bundle.not_valid_after)]

\* validate_certificate: the try block, and except Exception: return False
ValidateCertificate(bundle, password, t) ==
    /\ cert.pc = "idle"
    /\ LET body == ValidateBody(bundle, password, t)
       IN  cert' = [pc |-> "returned", bundle |-> bundle, password |-> password, t |-> t,
                    result |-> IF body.kind = "raise" THEN FALSE ELSE body.value,
                    caught |-> body.what]
    /\ UNCHANGED <<issueVars, tokenVars, route, gateway, crypto, certVars>>

CertNext ==
    \E b \in Bundles, pw \in Passwords, t \in 0..MaxCertTime : ValidateCertificate(b, pw, t)

CertSpec == Init /\ [][CertNext]_vars

(***************************************************************************)
(* CertificateService.extract_certificate_info                             *)
(***************************************************************************)
\* the texts of the three ValueErrors the function raises: line 44, line 64
\* and the prefix of line 65
MissingKeyOrCertText == "certificate or private key not found"
InvalidPasswordText == "certificate password is not correct"
ProcessingFailedText == "certificate processing failed: "

\* line 63: "Invalid password" in str(e) or "mac verify failure" in str(e)
SaysInvalidPassword(msg) ==
    msg \in { "Invalid password or PKCS12 data", "mac verify failure" }

\* lines 36-60: the body of the try block; an exception is a type and str(e)
ExtractBody(bundle, password) ==
    LET pw == Utf8Encode(password)
        loaded == LoadKeyAndCertificates(bundle, pw.bytes)
    IN  IF ~pw.ok
        THEN [kind |-> "raise", type |-> "UnicodeEncodeError",
              msg |-> "surrogates not allowed"]
        ELSE IF loaded.kind = "raise"
        THEN [kind |-> "raise", type |-> loaded.what, msg |-> loaded.msg]
        ELSE IF ~loaded.cert \/ ~loaded.key
        THEN [kind |-> "raise", type |-> "ValueError", msg |-> MissingKeyOrCertText]
        ELSE [kind |-> "return", type |-> "-", msg |-> "-"]

\* lines 62-65: except Exception as e, which also catches the ValueError of
\* line 44: the error that leaves the function
ExtractError(body) ==
    IF SaysInvalidPassword(body.msg)
    THEN [type |-> "ValueError", text |-> InvalidPasswordText, detail |-> "-"]
    ELSE [type |-> "ValueError", text |-> ProcessingFailedText, detail |-> body.msg]

\* extract_certificate_info(cert_file_content, password)
ExtractCertificateInfo(bundle, password) ==
    /\ extract.pc = "idle"
    /\ LET body == ExtractBody(bundle, password)
       IN  extract' = [pc |-> IF body.kind = "raise" THEN "raised" ELSE "returned",
                       bundle |-> bundle, password |-> password,
                       error |-> IF body.kind = "raise" THEN ExtractError(body)
                                 ELSE NoError]
    /\ UNCHANGED <<issueVars, tokenVars, route, gateway, crypto, cert,
                    transport, client, upload, doc_calls>>

ExtractNext ==
    \E b \in Bundles, pw \in Passwords : ExtractCertificateInfo(b, pw)

ExtractSpec == Init /\ [][ExtractNext]_vars

(***************************************************************************)
(* services/hyphen_service.py: _pad, _get_iv and encrypt_data, on bytes    *)
(***************************************************************************)
\* the block size of _pad, the length of the IV and the length of the key
BlockSize == 16
IvLength == 16
KeyLength == 16

\* bytes([b] * n)
Rep(b, n) == [i \in 1..n |-> b]

\* seq[:n]
Take(seq, n) == SubSeq(seq, 1, IF Len(seq) < n THEN Len(seq) ELSE n)

\* _pad: PKCS7
Pad(data) ==
    LET padding_len == BlockSize - (Len(data) % BlockSize)
    IN  data \o Rep(padding_len, padding_len)

\* a variant of _get_iv that does not fill a short identifier
GetIvUnfilled(user_id_bytes) == Take(user_id_bytes, IvLength)

\* _get_iv, given self.user_id.encode('utf-8')
GetIv(user_id_bytes) ==
    LET iv == IF Len(user_id_bytes) < IvLength
              THEN user_id_bytes \o Rep(0, IvLength - Len(user_id_bytes))
              ELSE user_id_bytes
    IN  Take(iv, IvLength)

\* Cipher(algorithms.AES(key), modes.CBC(iv)).encryptor() over padded data,
\* then base64.b64encode(...).decode(): kept symbolic
AesCbcBase64(key, iv, padded) == << "base64", << "aes-cbc", key, iv, padded >> >>

EncryptRaise(data, what, key, iv) ==
    [data |-> data, kind |-> "raise", what |-> what, key |-> key, iv |-> iv, out |-> << >>]

\* encrypt_data(data) of a HyphenService with the given user_id and ekey:
\* what the call returns or raises, and the key and the IV it computed.
\* algorithms.AES raises ValueError for a key that is not 16, 24 or 32 bytes.
EncryptDataResult(user_id, ekey, data) ==
    LET k == Utf8Encode(ekey)
        key == Take(k.bytes, KeyLength)
        u == Utf8Encode(user_id)
        iv == GetIv(u.bytes)
        d == Utf8Encode(data)
    IN  IF ekey = << >> THEN EncryptRaise(data, "ValueError", << >>, << >>)
        ELSE IF ~k.ok THEN EncryptRaise(data, "UnicodeEncodeError", << >>, << >>)
        ELSE IF ~u.ok THEN EncryptRaise(data, "UnicodeEncodeError", key, << >>)
        ELSE IF Len(key) # KeyLength THEN EncryptRaise(data, "ValueError", key, iv)
        ELSE IF ~d.ok THEN EncryptRaise(data, "UnicodeEncodeError", key, iv)
        ELSE [data |-> data, kind |-> "return", what |-> "-", key |-> key, iv |-> iv,
              out |-> AesCbcBase64(key, iv, Pad(d.bytes))]

\* settings.HYPHEN_CLIENT_ID and settings.HYPHEN_EKEY: shorter than, as long
\* as and longer than 16 bytes, one whose 16th byte is inside a character,
\* one that cannot be encoded
UserIds ==
    { Rep(65, n) : n \in 0..MaxIdLen } \cup { Rep(65, 15) \o << 233 >>, << 55296 >> }

EKeys ==
    { Rep(66, n) : n \in 0..MaxIdLen } \cup { Rep(66, 15) \o << 233 >> }

\* the strings encrypted: a 13-digit resident number, a whole block, nothing,
\* one with a character of three bytes
Plaintexts == { Rep(57, 13), Rep(57, 16), << >>, << 44032 >> }

\* HyphenService.__init__
TransportInit(user_id, ekey) ==
    /\ transport.pc = "unconstructed"
    /\ transport' = [pc |-> "ready", user_id |-> user_id, ekey |-> ekey, made |-> << >>]
    /\ UNCHANGED <<issueVars, tokenVars, route, gateway, crypto, cert,
                    extract, client, upload, doc_calls>>

\* one call of encrypt_data
TransportEncrypt(data) ==
    /\ transport.pc = "ready"
    /\ Len(transport.made) < MaxEncryptCalls
    /\ transport' = [transport EXCEPT
                       !.made = Append(@, EncryptDataResult(transport.user_id,
                                                            transport.ekey, data))]
    /\ UNCHANGED <<issueVars, tokenVars, route, gateway, crypto, cert,
                    extract, client, upload, doc_calls>>

TransportNext ==
    \/ \E user_id \in UserIds, ekey \in EKeys : TransportInit(user_id, ekey)
    \/ \E data \in Plaintexts : TransportEncrypt(data)

TransportSpec == Init /\ [][TransportNext]_vars

(***************************************************************************)
(* api/clients.py: upload_certificate, get_certificate_status and          *)
(* delete_certificate, for one Client row.  The session of a call is       *)
(* committed by get_db when the handler has returned and rolled back when  *)
(* it raised.                                                              *)
(***************************************************************************)
\* the details of the HTTPExceptions of upload_certificate: lines 221, 232
\* and the prefix of line 259
UnsupportedFileDetail == "unsupported file type"
InvalidOrExpiredDetail == "certificate is not valid or has expired"
UploadErrorDetail == "error while processing the certificate: "

\* str(e) of an HTTPException: its status and its detail
HttpExceptionText(status_code, detail) == << status_code, detail >>

\* get_certificate_info: the try block and its except Exception
GetCertificateInfo(bundle, password) ==
    LET pw == Utf8Encode(password)
        loaded == LoadKeyAndCertificates(bundle, pw.bytes)
    IN  IF ~pw.ok \/ loaded.kind = "raise" \/ ~loaded.cert
        THEN [kind |-> "raise", what |-> "ValueError", subject |-> "-", valid_until |-> 0]
        ELSE [kind |-> "return", what |-> "-", subject |-> "CN",
              valid_until |-> bundle.not_valid_after]

\* lines 242-245: the four columns the n-th call assigns; the two encrypted
\* columns are Fernet tokens, which differ from call to call
CertificateFields(bundle, n) ==
    [cert_der2pem_enc |-> Some(<< "fernet", n, "der2pem" >>),
     cert_key2pem_enc |-> Some(<< "fernet", n, "key2pem" >>),
     cert_subject |-> Some("CN"),
     cert_valid_until |-> Some(bundle.not_valid_after)]

\* lines 201-245: the file-name check, then inside the try block
\* validate_certificate, get_certificate_info, extract_certificate_info and
\* the four assignments.  The HTTPException of line 230 is raised inside the
\* try block: `except ValueError` lets it pass and `except Exception`
\* catches it and raises the HTTPException of line 259 in its place.
UploadCertificate(ext_ok, bundle, password, t) ==
    /\ upload.pc \in {"idle", "returned", "raised"}
    /\ upload.calls < MaxCertCalls
    /\ LET call == [NoUpload EXCEPT !.calls = upload.calls + 1, !.route = "upload",
                                    !.bundle = bundle]
           v == ValidateBody(bundle, password, t)
           valid == v.kind = "return" /\ v.value
           info == GetCertificateInfo(bundle, password)
           body == ExtractBody(bundle, password)
       IN  upload' =
             IF ~ext_ok
             THEN [call EXCEPT !.pc = "raised", !.status_code = 400,
                               !.detail = UnsupportedFileDetail]
             ELSE IF ~valid
             THEN [call EXCEPT !.pc = "raised", !.checked = TRUE, !.status_code = 500,
                               !.detail = UploadErrorDetail,
                               !.cause = HttpExceptionText(400, InvalidOrExpiredDetail)]
             ELSE IF info.kind = "raise"
             THEN [call EXCEPT !.pc = "raised", !.checked = TRUE, !.valid = TRUE,
                               !.status_code = 400, !.detail = "certificate info failed: "]
             ELSE IF body.kind = "raise"
             THEN [call EXCEPT !.pc = "raised", !.checked = TRUE, !.valid = TRUE,
                               !.status_code = 400, !.detail = ExtractError(body).text,
                               !.cause = ExtractError(body).detail]
             ELSE [call EXCEPT !.pc = "flush", !.checked = TRUE, !.valid = TRUE,
                               !.pending = CertificateFields(bundle, upload.calls + 1)]
    /\ UNCHANGED <<issueVars, tokenVars, route, gateway, crypto, cert,
                    extract, transport, client, doc_calls>>

\* lines 247-259 and get_db: flush, return, commit; an exception of the
\* flush is caught by `except Exception`, and the session is rolled back
UploadFlush ==
    /\ upload.pc = "flush"
    /\ upload.route = "upload"
    /\ \E db_ok \in BOOLEAN :
         IF db_ok
         THEN /\ client' = upload.pending
              /\ upload' = [upload EXCEPT !.pc = "returned", !.status_code = 200,
                                          !.pending = NoCertificate]
         ELSE /\ UNCHANGED client
              /\ upload' = [upload EXCEPT !.pc = "raised", !.status_code = 500,
                                          !.detail = UploadErrorDetail,
                                          !.cause = "SQLAlchemyError",
                                          !.pending = NoCertificate]
    /\ UNCHANGED <<issueVars, tokenVars, route, gateway, crypto, cert,
                    extract, transport, doc_calls>>

\* a variant of delete_certificate that leaves the subject and the expiry
ClearedKeysOnly(row) ==
    [row EXCEPT !.cert_der2pem_enc = None, !.cert_key2pem_enc = None]

\* lines 313-316 of delete_certificate
Cleared(row) ==
    [row EXCEPT !.cert_der2pem_enc = None, !.cert_key2pem_enc = None,
                !.cert_subject = None, !.cert_valid_until = None]

\* delete_certificate: the four assignments, the flush and the commit
DeleteCertificate ==
    /\ upload.pc \in {"idle", "returned", "raised"}
    /\ upload.calls < MaxCertCalls
    /\ LET call == [NoUpload EXCEPT !.calls = upload.calls + 1, !.route = "delete"]
       IN  \E db_ok \in BOOLEAN :
             IF db_ok
             THEN /\ client' = Cleared(client)
                  /\ upload' = [call EXCEPT !.pc = "returned", !.status_code = 204]
             ELSE /\ UNCHANGED client
                  /\ upload' = [call EXCEPT !.pc = "raised", !.status_code = 500,
                                            !.cause = "SQLAlchemyError"]
    /\ UNCHANGED <<issueVars, tokenVars, route, gateway, crypto, cert,
                    extract, transport, doc_calls>>

\* Python truthiness of an Optional value of a column that is never empty
\* when set
IsSet(x) == x # None

\* lines 280-292 of get_certificate_status, at time t
GetCertificateStatus(row, t) ==
    LET has_cert == IsSet(row.cert_der2pem_enc) /\ IsSet(row.cert_key2pem_enc)
    IN  [has_certificate |-> has_cert,
         cert_subject |-> row.cert_subject,
         cert_valid_until |-> row.cert_valid_until,
         is_expired |-> /\ has_cert
                        /\ IsSet(row.cert_valid_until)
                        /\ \E u \in row.cert_valid_until : t > u]

ClientNext ==
    \/ \E ext_ok \in BOOLEAN, b \in Bundles, pw \in Passwords, t \in 0..MaxCertTime :
         UploadCertificate(ext_ok, b, pw, t)
    \/ UploadFlush
    \/ DeleteCertificate

ClientSpec == Init /\ [][ClientNext]_vars

(***************************************************************************)
(* api/documents.py: upload_document and delete_document.  Each runs in    *)
(* one session that get_db commits when the handler has returned and rolls *)
(* back when it raised, so its rows change together or not at all.         *)
(***************************************************************************)
\* lines 76-145: write the file, add the Document, set the row of the case
\* and type, if there is one, COMPLETED with the Document
UploadDocument(case_id, document_type) ==
    /\ doc_calls < MaxDocCalls
    /\ doc_calls' = doc_calls + 1
    /\ LET k == <<case_id, document_type>>
       IN  \E o \in {"ok", "OSError", "SQLAlchemyError"} :
             CASE o = "ok" ->
                    /\ documents' = documents \cup
                                      {[id |-> next_id, case_id |-> case_id,
                                        document_type |-> document_type,
                                        api_success |-> FALSE, has_file |-> TRUE]}
                    /\ next_id' = next_id + 1
                    /\ files' = files + 1
                    /\ required' = IF k \in DOMAIN required
                                   THEN [required EXCEPT ![k].status = "COMPLETED",
                                                         ![k].document_id = Some(next_id)]
                                   ELSE required
               [] o = "OSError" ->
                    UNCHANGED <<documents, next_id, files, required>>
               [] o = "SQLAlchemyError" ->
                    /\ files' = files + 1
                    /\ UNCHANGED <<documents, next_id, required>>
    /\ UNCHANGED <<inv, batch, calls>>
    /\ UNCHANGED <<tokenVars, route, gateway, crypto, cert, extract, transport, client,
                    upload>>

\* lines 169-202: remove the file, reset the row that carries the Document
\* to NOT_STARTED without document_id, delete the Document
DeleteDocument(document_id) ==
    \E d \in documents :
      /\ d.id = document_id
      /\ doc_calls < MaxDocCalls
      /\ doc_calls' = doc_calls + 1
      /\ files' = IF d.has_file THEN files - 1 ELSE files
      /\ \E db_ok \in BOOLEAN :
           IF db_ok
           THEN /\ documents' = documents \ {d}
                /\ required' = [k \in DOMAIN required |->
                                  IF required[k].document_id = Some(document_id)
                                  THEN [required[k] EXCEPT !.status = "NOT_STARTED",
                                                           !.document_id = None]
                                  ELSE required[k]]
           ELSE /\ documents' = (documents \ {d}) \cup {[d EXCEPT !.has_file = FALSE]}
                /\ UNCHANGED required
      /\ UNCHANGED <<next_id, inv, batch, calls>>
      /\ UNCHANGED <<tokenVars, route, gateway, crypto, cert, extract, transport, client,
                      upload>>

Next ==
    \/ \E p \in DirectProcs, c \in Cases, t \in ModelTypes : AutoIssueDocument(p, c, t)
    \/ \E p \in Procs : CallHyphenApi(p)
    \/ \E p \in Procs : SaveDocument(p)
    \/ \E p \in Procs : CompletedUpdate(p)
    \/ \E p \in Procs : FailedUpdate(p)
    \/ \E p \in Procs : ExceptUpdate(p)
    \/ \E c \in Cases : BatchAutoIssue(c)
    \/ BatchNext
    \/ \E k \in ManualKeys, s \in DocumentStatus : UpdateRequiredDocumentStatus(k, s)

Spec == Init /\ [][Next]_vars

\* the ids a Document can have: a direct call saves at most one Document, a
\* batch call at most one for each of the two auto-issuable types of a case
DocIds == 1..(2 * MaxCalls + MaxDocCalls)

\* the service and the three routes that write required-document rows, for
\* the rows of ManualKeys
DocsNext ==
    \/ \E p \in DirectProcs, k \in ManualKeys : AutoIssueDocument(p, k[1], k[2])
    \/ \E p \in Procs : CallHyphenApi(p)
    \/ \E p \in Procs : SaveDocument(p)
    \/ \E p \in Procs : CompletedUpdate(p)
    \/ \E p \in Procs : FailedUpdate(p)
    \/ \E p \in Procs : ExceptUpdate(p)
    \/ \E k \in ManualKeys : BatchAutoIssue(k[1])
    \/ BatchNext
    \/ \E k \in ManualKeys, s \in DocumentStatus : UpdateRequiredDocumentStatus(k, s)
    \/ \E k \in ManualKeys : UploadDocument(k[1], k[2])
    \/ \E d \in DocIds : DeleteDocument(d)

DocsSpec == Init /\ [][DocsNext]_vars

\* the event loop resumes every coroutine whose await has completed: each
\* step of a running call is eventually taken.  Nothing obliges a caller to
\* start a call or a user to change a status.
Fairness ==
    /\ \A p \in Procs :
         /\ WF_vars(CallHyphenApi(p))
         /\ WF_vars(SaveDocument(p))
         /\ WF_vars(CompletedUpdate(p))
         /\ WF_vars(FailedUpdate(p))
         /\ WF_vars(ExceptUpdate(p))
    /\ WF_vars(BatchNext)

LiveSpec == Spec /\ Fairness

(***************************************************************************)
(* Properties.                                                             *)
(***************************************************************************)
Key(p) == <<inv[p].case_id, inv[p].document_type>>

\* the call in slot p was past its entry update and ends in this step
EndsStep(p) == inv[p].pc \notin ({"idle"} \cup Ended) /\ inv'[p].pc \in Ended

\* the row of the call in slot p is COMPLETED and carries the Document the
\* call returned, which is a Document row of that case and type
Attached(p) ==
    /\ Key(p) \in DOMAIN required
    /\ required[Key(p)].status = "COMPLETED"
    /\ inv[p].result.document_id # None
    /\ required[Key(p)].document_id = inv[p].result.document_id
    /\ inv[p].result.document_id = inv[p].document
    /\ \E d \in documents : /\ Some(d.id) = inv[p].document
                            /\ d.case_id = inv[p].case_id
                            /\ d.document_type = inv[p].document_type

\* the errors a call returns that come from _save_document or a status update
DownstreamErrors == {"OSError", "SQLAlchemyError"}

C2_FailureLeavesNoArtifact ==
    [][\A p \in Procs :
         (/\ EndsStep(p) /\ inv[p].api # "-"
          /\ inv'[p].pc = "returned" /\ ~inv'[p].result.success
          /\ Key(p) \in DOMAIN required)
         => (/\ required'[Key(p)].status = "NOT_STARTED"
             /\ required'[Key(p)].document_id = None)]_vars

\* C3 as stated: however a call that touched its row ends (success return,
\* failure return or an exception leaving it; cancellation is C4's case),
\* the row is not IN_PROGRESS when it has ended.
C3_NeverLeftInProgress ==
    [][\A p \in Procs :
         (/\ EndsStep(p) /\ inv'[p].pc \in {"returned", "raised"}
          /\ Key(p) \in DOMAIN required)
         => required'[Key(p)].status # "IN_PROGRESS"]_vars

\* C4 as stated: a call that is cancelled or times out while awaiting the
\* gateway ends with its row back in NOT_STARTED.
C4_CancelReverts ==
    [][\A p \in Procs :
         (/\ EndsStep(p) /\ Key(p) \in DOMAIN required
          /\ (inv'[p].pc = "cancelled" \/ inv[p].error = "TimeoutException"))
         => required'[Key(p)].status = "NOT_STARTED"]_vars

\* C5 as stated: auto_issue_document never raises to its caller.
C5_NeverRaises == \A p \in Procs : inv[p].pc # "raised"

\* the status changes C6 allows automatic issuance to make
IssueEdges ==
    { <<"NOT_STARTED", "IN_PROGRESS">>, <<"IN_PROGRESS", "COMPLETED">>,
      <<"IN_PROGRESS", "NOT_STARTED">> }

\* C6 as stated: a step of automatic issuance changes the status of a row
\* only along NOT_STARTED -> IN_PROGRESS, IN_PROGRESS -> COMPLETED and
\* IN_PROGRESS -> NOT_STARTED, so never a COMPLETED or NOT_REQUIRED row.
C6_OnlyIssueEdges ==
    [][\A k \in RecKeys :
         (inv' # inv /\ required'[k].status # required[k].status)
         => <<required[k].status, required'[k].status>> \in IssueEdges]_vars

\* the document types of the entries of a result list
TypesOf(list) == { list[i].document_type : i \in 1..Len(list) }

\* C7 as stated: when exactly one gateway call of a batch fails, the batch
\* ends with N-1 entries in success and 1 in failed, the failing row
\* NOT_STARTED and every other selected row COMPLETED.
C7_PartialSuccess ==
    (batch.pc \in {"returned", "raised"} /\ Cardinality(batch.gw_failed) = 1)
    => /\ Len(batch.success) = Cardinality(batch.selected) - 1
       /\ Len(batch.failed) = 1
       /\ \A t \in batch.selected :
            required[<<batch.case_id, t>>].status =
              IF t \in batch.gw_failed THEN "NOT_STARTED" ELSE "COMPLETED"

\* C8 as stated: a batch calls auto_issue_document once for every selected
\* document, and every selected document is in exactly one of the two lists.
C8_EverySelectedOnce ==
    batch.pc \in {"returned", "raised"}
    => /\ batch.remaining = {}
       /\ TypesOf(batch.success) \cap TypesOf(batch.failed) = {}
       /\ TypesOf(batch.success) \cup TypesOf(batch.failed) = batch.selected
       /\ Len(batch.success) + Len(batch.failed) = Cardinality(batch.selected)

\* C9 as stated: when the calls of _get_access_token ran concurrently and
\* each found no token cached, exactly one of them sent a request and all
\* returned the same token.
C9_SingleFlight ==
    (\A p \in TokenProcs :
       tcall[p].pc = "returned" /\ tcall[p].nocache /\ tcall[p].overlap)
    => /\ Cardinality({p \in TokenProcs : tcall[p].sent}) = 1
       /\ \A p, q \in TokenProcs : tcall[p].ret = tcall[q].ret

\* no token is cached, or now is within SafetyWindow of the real expiry or later
RefreshDue ==
    \/ access_token = None
    \/ real_expiry # None /\ \A e \in real_expiry : now >= e - SafetyWindow

\* C10: a request goes to the token endpoint exactly when a call starts
\* while no token is cached or now is within 300 s of the token's real
\* expiry; otherwise the call returns the cached token without a request;
\* a successful fetch caches the token and the expiry of its response.
C10_RefreshOnlyWhenDue ==
    [][/\ token_requests' # token_requests => token_calls' = token_calls + 1
       /\ token_calls' = token_calls + 1
          => /\ (token_requests' = token_requests + 1) <=> RefreshDue
             /\ token_requests' = token_requests
                => /\ UNCHANGED <<access_token, token_expires_at>>
                   /\ \E p \in TokenProcs : /\ tcall'[p].pc = "returned"
                                            /\ ~tcall'[p].sent
                                            /\ tcall'[p].ret = access_token
       /\ \A p \in TokenProcs :
            (tcall[p].pc = "posting" /\ tcall'[p].pc = "returned")
            => /\ access_token' = tcall'[p].ret
               /\ real_expiry' # None
               /\ token_expires_at' = {e - SafetyWindow : e \in real_expiry'}]_vars

\* C10 witness: one call returned the cached token without a request while
\* another call, finding the cached token within the window, sent a request.
C10_Witness ==
    \E p, q \in TokenProcs :
      /\ tcall[p].pc = "returned" /\ ~tcall[p].sent /\ tcall[p].ret = access_token
      /\ tcall[q].pc = "posting" /\ ~tcall[q].nocache
      /\ token_requests = 2

\* C11 as stated: every Document that automatic issuance persisted comes from
\* an API response that signalled success, and so does every Document
\* attached to a COMPLETED row; on the service path and on the route.
C11_AttachedOnlyOnSuccess ==
    /\ \A d \in documents : d.api_success
    /\ \A k \in DOMAIN required :
         (required[k].status = "COMPLETED" /\ required[k].document_id # None)
         => \A d \in documents : Some(d.id) = required[k].document_id => d.api_success

\* the call in slot p is between its IN_PROGRESS entry write and its final
\* status write
InFlight(p) ==
    inv[p].pc \in {"call_api", "save", "completed_update", "failed_update", "except_update"}

\* C12 as stated: two executions of auto_issue_document for the same
\* (case, document type) are never both between the entry write and the
\* final status write.
C12_NoOverlapOnRecord ==
    \A p, q \in Procs : (p # q /\ InFlight(p) /\ InFlight(q)) => Key(p) # Key(q)

\* C13: a step of an auto_issue_document call for (c, d) changes no
\* required-document record other than (c, d), whatever other calls are
\* running.
C13_OnlyOwnRecord ==
    [][\A k \in RecKeys :
         (inv' # inv /\ required'[k] # required[k])
         => /\ \E p \in Procs :
                 /\ inv'[p] # inv[p]
                 /\ <<inv'[p].case_id, inv'[p].document_type>> = k
            /\ required'[k].is_required = required[k].is_required]_vars

\* C13 witness: the direct call has completed its record while the call of
\* the batch is in flight on another record, which is still IN_PROGRESS.
C13_Witness ==
    /\ inv["direct"].pc = "returned" /\ inv["direct"].result.success
    /\ InFlight(BatchProc)
    /\ Key("direct") # Key(BatchProc)
    /\ required[Key("direct")].status = "COMPLETED"
    /\ required[Key(BatchProc)].status = "IN_PROGRESS"

\* the document types no branch of _call_hyphen_api names
UnmappedTypes == DocumentType \ { DispatchChain[i].name : i \in 1..Len(DispatchChain) }

\* C17 as stated: dispatching a document type that has no branch fails with
\* ValueError and with no other error, before any request is built.
C17_UnmappedIsValueError ==
    [][\A p \in Procs :
         (/\ inv[p].pc = "call_api" /\ inv'[p] # inv[p]
          /\ inv[p].document_type \in UnmappedTypes)
         => /\ ApiCall(inv[p].document_type) = [kind |-> "raise", what |-> "ValueError"]
            /\ inv'[p].error = "ValueError"]_vars

\* C14: a call of a document method sends at most one POST to the document
\* endpoint and at most one to the token endpoint, and a request that fails
\* makes the call raise at once, with nothing sent after it.
C14_NeverRetries ==
    [][/\ gateway'.doc_posts <= 1
       /\ gateway'.token_posts <= 1
       /\ Cardinality({ r \in gateway'.sent : r.to = "document" }) <= 1
       /\ (gateway.pc = "posting" /\ gateway'.outcome \in RequestExceptions)
          => /\ gateway'.pc = "raised"
             /\ gateway'.error = gateway'.outcome
             /\ gateway'.sent = gateway.sent
             /\ gateway'.doc_posts = gateway.doc_posts]_vars

\* C14 witness: a call that asked for a token and then posted its one
\* document request has raised the error of that request.
C14_Witness ==
    /\ gateway.pc = "raised"
    /\ gateway.outcome \in RequestExceptions
    /\ gateway.doc_posts = 1
    /\ gateway.token_posts = 1

\* C15 as stated: every request the gateway sends, the one to the token
\* endpoint included, carries the test header exactly when test mode is on.
C15_TestHeaderOnEveryRequest ==
    \A r \in gateway.sent : ("hyphen-gustation" \in r.headers) <=> gateway.test_mode

\* the fields of a body, and the values it carries
Fields(data) == { f[1] : f \in data }

\* the identity number is in the body only as the output of encrypt_data
NoPlainIdentity(data) ==
    \A f \in data : f[2].v = ResidentNumber => f[2].form = "aes128-cbc-base64"

\* the body has name, the encrypted identity number and certType
HasIdentityFields(data) ==
    /\ {"name", "jumin", "certType"} \subseteq Fields(data)
    /\ \A f \in data : f[1] = "jumin" => (f[2].form = "aes128-cbc-base64"
                                          /\ f[2].v = ResidentNumber)

AddressMethods == { "get_real_estate_register", "get_business_status" }

C19_AlteredBlobRejected ==
    crypto.tampered # "-" => crypto.pc # "decrypted"

\* the file parses under the given password, holds a key and a certificate,
\* and the time of the call is within the validity of the certificate
CertificateUsable ==
    /\ cert.bundle.wellformed
    /\ cert.password = cert.bundle.password
    /\ cert.bundle.has_key
    /\ cert.bundle.has_cert
    /\ cert.bundle.not_valid_before <= cert.t
    /\ cert.t <= cert.bundle.not_valid_after

\* C20: validate_certificate never raises; it returns false for input that
\* does not parse, for a file without key or certificate and for a
\* certificate whose validity does not contain the current time, and so
\* returns true only for a usable certificate.
C20_ValidateNeverRaises ==
    /\ cert.pc \in {"idle", "returned"}
    /\ cert.pc = "returned" =>
         /\ ~CertificateUsable => ~cert.result
         /\ cert.result => (CertificateUsable /\ cert.caught = "-")

\* C20 witness: an expired certificate, given with the right password, has
\* been found invalid.
C20_Witness ==
    /\ cert.pc = "returned"
    /\ cert.bundle.wellformed /\ cert.bundle.has_key /\ cert.bundle.has_cert
    /\ cert.password = cert.bundle.password
    /\ cert.t > cert.bundle.not_valid_after
    /\ ~cert.result
    /\ cert.caught = "-"

\* C21 as stated: extract_certificate_info given a password that does not
\* unlock a well-formed file fails with the invalid-password error, and
\* given the right password for a file without key or without certificate
\* it fails with the missing-key-or-certificate error, which is neither the
\* invalid-password error nor the error malformed input gives.
C21_ErrorKinds ==
    extract.pc # "idle" =>
      /\ (extract.bundle.wellformed /\ extract.password # extract.bundle.password)
           => (extract.pc = "raised" /\ extract.error.text = InvalidPasswordText)
      /\ (/\ extract.bundle.wellformed
          /\ extract.password = extract.bundle.password
          /\ ~(extract.bundle.has_key /\ extract.bundle.has_cert))
           => (/\ extract.pc = "raised"
               /\ extract.error.text = MissingKeyOrCertText)

\* the bytes of the configured client identifier and transport key
UserIdBytes == Utf8Encode(transport.user_id).bytes

EKeyBytes == Utf8Encode(transport.ekey).bytes

C23_SuccessIffResponse ==
    [][\A p \in Procs :
         (EndsStep(p) /\ inv[p].api # "-" /\ inv'[p].pc # "cancelled")
         => /\ (inv'[p].pc = "returned" /\ inv'[p].result.success)
                <=> (inv[p].api = "ok" /\ inv[p].document # None)
            /\ inv[p].api = "failed"
                => /\ inv'[p].pc = "returned"
                   /\ ~inv'[p].result.success
                   /\ \/ inv'[p].result.code = inv[p].response.code
                      \/ inv'[p].result.error = inv[p].error]_vars

\* C24 as stated: once a call of auto_issue_document has set its row
\* IN_PROGRESS and awaits the gateway, the row eventually is COMPLETED or
\* NOT_STARTED.
C24_EventuallySettled ==
    \A p \in Procs : \A k \in RecKeys :
      (inv[p].pc = "call_api" /\ Key(p) = k)
        ~> (required[k].status \in {"COMPLETED", "NOT_STARTED"})

\* C25 as stated: for a call of an auto-issuable document type,
\* _call_hyphen_api takes a branch that awaits a HyphenService method.
C25_AutoAvailableDispatched ==
    [][\A p \in Procs :
         (/\ inv[p].pc = "call_api" /\ inv'[p].pc # "call_api"
          /\ inv[p].document_type \in AUTO_AVAILABLE_DOCUMENTS)
         => /\ ApiCall(inv[p].document_type).kind = "call"
            /\ ApiCall(inv[p].document_type).what \in HyphenMethods]_vars

\* the step is a direct call of auto_issue_document in slot p
IsCallStep(p) ==
    /\ calls' = calls + 1
    /\ batch' = batch
    /\ inv'[BatchProc] = inv[BatchProc]
    /\ inv'[p].pc # "idle"

\* C26: a call of auto_issue_document for a document type that is not
\* auto-issuable returns success=false at once, without a gateway step, and
\* changes no required-document row, no Document row and no artifact file.
C26_NotAutoAvailableNoEffect ==
    [][\A p \in DirectProcs :
         (IsCallStep(p) /\ inv'[p].document_type \notin AUTO_AVAILABLE_DOCUMENTS)
         => /\ inv'[p].pc = "returned"
            /\ ~inv'[p].result.success
            /\ inv'[p].result.document_id = None
            /\ inv'[p].document = None
            /\ required' = required
            /\ documents' = documents
            /\ files' = files]_vars

\* C26 witness: the call for RESIDENT_REGISTER of case 1 has returned
\* success=false and the row is as it was seeded.
C26_Witness ==
    \E p \in DirectProcs :
      /\ calls = 1
      /\ inv[p].pc = "returned"
      /\ inv[p].case_id = 1
      /\ inv[p].document_type = "RESIDENT_REGISTER"
      /\ ~inv[p].result.success
      /\ inv[p].result.error = "not auto-available"
      /\ required[<<1, "RESIDENT_REGISTER">>].status = "NOT_STARTED"
      /\ required[<<1, "RESIDENT_REGISTER">>].document_id = None
      /\ documents = {}

\* C27 as stated: every required-document row has a document_id if and
\* only if its status is COMPLETED.
C27_DocumentIdIffCompleted ==
    \A k \in RecKeys :
      (required[k].document_id # None) <=> (required[k].status = "COMPLETED")

\* C28 as stated: a call that has returned success=false has added no
\* Document row, and when it is the only call made so far there is no
\* Document row and no artifact file at all.
C28_FailureAddsNothing ==
    \A p \in Procs :
      (inv[p].pc = "returned" /\ ~inv[p].result.success)
      => /\ ~\E d \in documents : Some(d.id) = inv[p].document
         /\ (calls = 1 /\ batch.pc = "idle") => (documents = {} /\ files = 0)

\* C29 as stated: an upload_certificate call whose file validate_certificate
\* finds invalid is answered with status 400 and the detail that the
\* certificate is invalid or expired, and leaves the four certificate
\* columns of the client as they were.
C29_InvalidRejectedWith400 ==
    [][(/\ upload'.calls = upload.calls + 1
        /\ upload'.route = "upload"
        /\ upload'.checked /\ ~upload'.valid)
       => /\ upload'.pc = "raised"
          /\ upload'.status_code = 400
          /\ upload'.detail = InvalidOrExpiredDetail
          /\ client' = client]_vars

\* the four certificate columns are all null or all set
AllOrNone(row) ==
    \/ /\ row.cert_der2pem_enc = None /\ row.cert_key2pem_enc = None
       /\ row.cert_subject = None /\ row.cert_valid_until = None
    \/ /\ row.cert_der2pem_enc # None /\ row.cert_key2pem_enc # None
       /\ row.cert_subject # None /\ row.cert_valid_until # None

\* C30: after any sequence of upload_certificate and delete_certificate
\* calls, succeeding or failing, the four certificate columns of the client
\* are all set or all null; get_certificate_status reports has_certificate
\* exactly when the subject and the expiry are present; the two encrypted
\* columns come from one call, and after an upload that succeeded all four
\* columns are those of that call and of its file.
C30_CertificateFieldsTogether ==
    /\ AllOrNone(client)
    /\ \A t \in 0..MaxCertTime :
         GetCertificateStatus(client, t).has_certificate
           <=> (client.cert_subject # None /\ client.cert_valid_until # None)
    /\ client.cert_der2pem_enc # None
         => \E n \in 1..upload.calls :
              /\ client.cert_der2pem_enc = Some(<< "fernet", n, "der2pem" >>)
              /\ client.cert_key2pem_enc = Some(<< "fernet", n, "key2pem" >>)
    /\ (upload.route = "upload" /\ upload.pc = "returned")
         => /\ client.cert_der2pem_enc = Some(<< "fernet", upload.calls, "der2pem" >>)
            /\ client.cert_key2pem_enc = Some(<< "fernet", upload.calls, "key2pem" >>)
            /\ client.cert_subject # None
            /\ client.cert_valid_until = Some(upload.bundle.not_valid_after)
    /\ (upload.route = "delete" /\ upload.pc = "returned") => client = NoCertificate

\* C30 witness: the second call, an upload, has succeeded and the client
\* carries the four columns of that call.
C30_Witness ==
    /\ upload.calls = 2
    /\ upload.route = "upload"
    /\ upload.pc = "returned"
    /\ upload.status_code = 200
    /\ client.cert_der2pem_enc = Some(<< "fernet", 2, "der2pem" >>)
    /\ client.cert_subject # None
====
